---- MODULE Spec2Model ----
(***************************************************************************)
(* Model of the feature-derivation engine (src/feature_engineering.py,     *)
(* engineer_features) and of the coordinate standardizer (src/utils.py,    *)
(* invert_direction).                                                      *)
(*                                                                         *)
(* A DataFrame is a sequence of rows; a row is a function from column      *)
(* names to cell values, so DOMAIN of a row is the set of columns the      *)
(* frame has.  DataFrames are objects: `heap` maps object identities to    *)
(* frame values, and the Python names df / df_out are references into it,  *)
(* so that in-place column assignment and df.copy() are distinguishable.   *)
(*                                                                         *)
(* Arithmetic is exact fixed point: lengths, speeds and accelerations are  *)
(* in tenths (53.3 yd = 533, a = 2.5 yd/s^2 = 25), angles in whole degrees.*)
(* A float cell that can be missing (NaN / pd.NA) is a record              *)
(* [na, v, from]: `from` is the set of row positions whose raw values the  *)
(* cell was computed or copied from.                                       *)
(***************************************************************************)
EXTENDS Integers, Sequences, FiniteSets, TLC

VARIABLES heap, df, df0, df_out, left_data, same_sequence, pc, ret, err,
          missing, cow, calls, theta, normalized

vars == <<heap, df, df0, df_out, left_data, same_sequence, pc, ret, err,
          missing, cow, calls, theta, normalized>>

(* heap           object identity -> DataFrame value                        *)
(* df, df_out     the references held by the parameter df and the local     *)
(*                df_out of invert_direction                                *)
(* df0            the value of the argument when the call was entered       *)
(* left_data, same_sequence   the boolean masks of the two functions        *)
(* pc             the line the running call is at; "done", "raised"         *)
(* ret, err       what the call returned, the exception it raised           *)
(* missing        the required column the input lacks, or "none"            *)
(* cow            whether the pandas build runs with Copy-on-Write, once    *)
(*                line 60 has made it observable                            *)
(* calls          completed applications of invert_direction                *)
(* theta, normalized   argument and result of normalize_deg                 *)

----------------------------------------------------------------------------
(* Bounds of the model *)

MaxRows == 3
MaxStdRows == 2
MaxCalls == 2
MaxTheta == 400

(* Trajectory keys (game_id, play_id, nfl_id) and frame ids of the inputs:
   the loader supplies one row per (game_id, play_id, nfl_id, frame_id) *)
Keys == {<<1, 1, 1>>, <<1, 1, 2>>}
Frames == {1, 2}

(* Raw measurements <<a, o, s, dir>> of a row: a and s in tenths, o and dir
   in degrees *)
Measures == {<<20, 10, 0, 190>>, <<20, 15, 0, 190>>,
             <<25, 10, 20, 190>>, <<25, 15, 20, 190>>}

----------------------------------------------------------------------------
(* Cells and series *)

NaN == [na |-> TRUE, v |-> 0, from |-> {}]

Val(x, src) == [na |-> FALSE, v |-> x, from |-> src]

Cols(d) == DOMAIN d[1]

Rows(d) == 1..Len(d)

(* df[col] = series : add or replace a whole column *)
SetCol(d, col, series) == [i \in Rows(d) |-> (col :> series[i]) @@ d[i]]

(* Series.diff(): row minus the preceding row in row order, NaN on row 1 *)
Diff(d, col) ==
  [i \in Rows(d) |-> IF i = 1 THEN NaN
                     ELSE Val(d[i][col] - d[i - 1][col], {i - 1, i})]

(* the division by the sampling interval left out *)
DivTenthSkipped(series) == series

(* series / 0.1 on exact values *)
DivTenth(series) ==
  [i \in DOMAIN series |-> IF series[i].na THEN series[i]
                           ELSE [series[i] EXCEPT !.v = @ * 10]]

(* (game_id == game_id.shift()) & (play_id == ...) & (nfl_id == ...) :
   comparing with the NaN that shift() puts on the first row is False *)
SameSequence(d) ==
  [i \in Rows(d) |-> /\ i > 1
                     /\ d[i]["game_id"] = d[i - 1]["game_id"]
                     /\ d[i]["play_id"] = d[i - 1]["play_id"]
                     /\ d[i]["nfl_id"] = d[i - 1]["nfl_id"]]

(* series.loc[~mask] = pd.NA *)
SetNA(series, mask) ==
  [i \in DOMAIN series |-> IF mask[i] THEN series[i] ELSE NaN]

(* a forward fill in place of the backward fill *)
Ffill(series) ==
  [i \in DOMAIN series |->
     IF ~series[i].na THEN series[i]
     ELSE LET earlier == {j \in DOMAIN series : j < i /\ ~series[j].na}
          IN IF earlier = {} THEN NaN
             ELSE series[CHOOSE j \in earlier : \A k \in earlier : j >= k]]

(* Series.bfill(): a missing cell takes the next non-missing cell below it,
   wherever that cell is; it stays missing when there is none *)
Bfill(series) ==
  [i \in DOMAIN series |->
     IF ~series[i].na THEN series[i]
     ELSE LET later == {j \in DOMAIN series : j > i /\ ~series[j].na}
          IN IF later = {} THEN NaN
             ELSE series[CHOOSE j \in later : \A k \in later : j <= k]]

Column(d, col) == [i \in Rows(d) |-> d[i][col]]

----------------------------------------------------------------------------
(* Per-row functions of engineer_features *)

(* a normalisation onto (-180, 180] *)
normalize_deg_upper(t) == 180 - ((180 - t) % 360)

(* ((theta + 180) % 360) - 180 ; Python's % takes the sign of the divisor,
   as does TLA+'s % for a positive divisor *)
normalize_deg(t) == ((t + 180) % 360) - 180

(* 703 * weight / height ** 2, as an exact fraction *)
PlayerBmi(r) == [num |-> 703 * r["player_weight"],
                 den |-> r["player_height"] * r["player_height"]]

(* speed * cos(dir * pi / 180) and speed * sin(...), kept symbolic *)
XVelocity(r) == [speed |-> r["s"], cos_of_deg |-> r["dir"]]

YVelocity(r) == [speed |-> r["s"], sin_of_deg |-> r["dir"]]

AngleDiff(r) == normalize_deg(r["o"] - r["dir"])

(* 0.03108 * weight * s, s in tenths *)
PlayerMomentum(r) == [num |-> 3108 * r["player_weight"] * r["s"],
                      den |-> 1000000]

(* ang_velo_rad / speed_nonzero, where speed_nonzero is s with 0 replaced by
   NaN: the quotient is missing when either operand is.  The value is
   (num / den) * pi per yard; s is in tenths *)
CurvatureRaw(r) ==
  IF r["angular_velocity"].na \/ r["s"] = 0
  THEN [na |-> TRUE, num |-> 0, den |-> 1]
  ELSE [na |-> FALSE, num |-> r["angular_velocity"].v * 10,
        den |-> 180 * r["s"]]

(* the fillna(0) left out *)
FillNone(c) == c

(* fillna(0) *)
FillZero(c) == IF c.na THEN [na |-> FALSE, num |-> 0, den |-> 1] ELSE c

(* sqrt(dx ** 2 + dy ** 2), kept as the radicand *)
EuclideanDist(r) ==
  [sqrt_of |-> (r["x_input"] - r["ball_land_x"]) * (r["x_input"] - r["ball_land_x"])
             + (r["y_input"] - r["ball_land_y"]) * (r["y_input"] - r["ball_land_y"])]

DistFromLos(r) == r["x_input"] - r["absolute_yardline_number"]

(* np.degrees(np.arctan2(dy, dx)) on the eight compass directions and 0 *)
Atan2Deg(dy, dx) ==
  CASE dx > 0 /\ dy = 0 -> 0
    [] dx > 0 /\ dy = dx -> 45
    [] dx = 0 /\ dy > 0 -> 90
    [] dx < 0 /\ dy = -dx -> 135
    [] dx < 0 /\ dy = 0 -> 180
    [] dx < 0 /\ dy = dx -> -135
    [] dx = 0 /\ dy < 0 -> -90
    [] dx > 0 /\ dy = -dx -> -45
    [] dx = 0 /\ dy = 0 -> 0

BearingToBallLand(r) ==
  (Atan2Deg(r["ball_land_y"] - r["y_input"], r["ball_land_x"] - r["x_input"]) + 360) % 360

BearingDiff(r) == normalize_deg(r["o"] - r["bearing_to_ball_land"])

BearingDiffDir(r) == normalize_deg(r["dir"] - r["bearing_to_ball_land"])

----------------------------------------------------------------------------
(* engineer_features(df): one action per statement that reads or writes df *)

D == heap[df]

Store(d) == heap' = [heap EXCEPT ![df] = d]

(* a column lookup df[c] with c absent raises KeyError *)
KeyError == /\ pc' = "raised"
            /\ err' = "KeyError"
            /\ UNCHANGED <<heap, same_sequence, cow>>

Locals == <<df, df0, df_out, left_data, ret, missing, calls, theta, normalized>>

FE22 == /\ pc = "L22"
        /\ IF {"player_weight", "player_height"} \subseteq Cols(D)
           THEN /\ Store(SetCol(D, "player_bmi", [i \in Rows(D) |-> PlayerBmi(D[i])]))
                /\ pc' = "L27"
                /\ UNCHANGED <<err, same_sequence, cow>>
           ELSE KeyError
        /\ UNCHANGED Locals

FE27 == /\ pc = "L27"
        /\ IF {"s", "dir"} \subseteq Cols(D)
           THEN /\ heap' = [heap EXCEPT ![df] =
                      [i \in Rows(D) |-> ("x_velocity" :> XVelocity(D[i]))
                                         @@ ("y_velocity" :> YVelocity(D[i]))
                                         @@ D[i]]]
                /\ pc' = "L35"
                /\ UNCHANGED <<err, same_sequence, cow>>
           ELSE KeyError
        /\ UNCHANGED Locals

FE35 == /\ pc = "L35"
        /\ IF {"o", "dir"} \subseteq Cols(D)
           THEN /\ Store(SetCol(D, "angle_diff", [i \in Rows(D) |-> AngleDiff(D[i])]))
                /\ pc' = "L38"
                /\ UNCHANGED <<err, same_sequence, cow>>
           ELSE KeyError
        /\ UNCHANGED Locals

FE38 == /\ pc = "L38"
        /\ IF {"player_weight", "s"} \subseteq Cols(D)
           THEN /\ Store(SetCol(D, "player_momentum", [i \in Rows(D) |-> PlayerMomentum(D[i])]))
                /\ pc' = "L43"
                /\ UNCHANGED <<err, same_sequence, cow>>
           ELSE KeyError
        /\ UNCHANGED Locals

(* df['jerk'] = df['a'].diff() / 0.1 *)
FE43 == /\ pc = "L43"
        /\ IF "a" \in Cols(D)
           THEN /\ Store(SetCol(D, "jerk", DivTenth(Diff(D, "a"))))
                /\ pc' = "L45"
                /\ UNCHANGED <<err, same_sequence, cow>>
           ELSE KeyError
        /\ UNCHANGED Locals

FE45 == /\ pc = "L45"
        /\ IF {"game_id", "play_id", "nfl_id"} \subseteq Cols(D)
           THEN /\ same_sequence' = SameSequence(D)
                /\ pc' = "L51"
                /\ UNCHANGED <<err, heap, cow>>
           ELSE KeyError
        /\ UNCHANGED Locals

(* df.loc[~same_sequence, 'jerk'] = pd.NA *)
FE51 == /\ pc = "L51"
        /\ Store(SetCol(D, "jerk", SetNA(Column(D, "jerk"), same_sequence)))
        /\ pc' = "L53"
        /\ UNCHANGED <<err, same_sequence, cow>>
        /\ UNCHANGED Locals

FE53 == /\ pc = "L53"
        /\ Store(SetCol(D, "jerk", Bfill(Column(D, "jerk"))))
        /\ pc' = "L58"
        /\ UNCHANGED <<err, same_sequence, cow>>
        /\ UNCHANGED Locals

FE58 == /\ pc = "L58"
        /\ IF "o" \in Cols(D)
           THEN /\ Store(SetCol(D, "angular_velocity", DivTenth(Diff(D, "o"))))
                /\ pc' = "L60"
                /\ UNCHANGED <<err, same_sequence, cow>>
           ELSE KeyError
        /\ UNCHANGED Locals

(* df['angular_velocity'].loc[~same_sequence] = pd.NA : an assignment through
   an intermediate Series.  Whether it reaches df depends on the pandas
   build: without Copy-on-Write the Series is a view of df's column and the
   write goes through; with Copy-on-Write (the default from pandas 3) the
   Series is a temporary and df is left as it was. *)
ChainedSetNA(d, mask, mode) ==
  IF mode = "on" THEN d
  ELSE SetCol(d, "angular_velocity", SetNA(Column(d, "angular_velocity"), mask))

FE60 == /\ pc = "L60"
        /\ \E mode \in {"on", "off"} :
             /\ cow' = mode
             /\ Store(ChainedSetNA(D, same_sequence, mode))
        /\ pc' = "L62"
        /\ UNCHANGED <<err, same_sequence>>
        /\ UNCHANGED Locals

FE62 == /\ pc = "L62"
        /\ Store(SetCol(D, "angular_velocity", Bfill(Column(D, "angular_velocity"))))
        /\ pc' = "L67"
        /\ UNCHANGED <<err, same_sequence, cow>>
        /\ UNCHANGED Locals

FE67 == /\ pc = "L67"
        /\ IF "s" \in Cols(D)
           THEN /\ Store(SetCol(D, "path_curvature", [i \in Rows(D) |-> CurvatureRaw(D[i])]))
                /\ pc' = "L69"
                /\ UNCHANGED <<err, same_sequence, cow>>
           ELSE KeyError
        /\ UNCHANGED Locals

FillCurvature(r) == FillZero(r["path_curvature"])

FE69 == /\ pc = "L69"
        /\ Store(SetCol(D, "path_curvature", [i \in Rows(D) |-> FillCurvature(D[i])]))
        /\ pc' = "L76"
        /\ UNCHANGED <<err, same_sequence, cow>>
        /\ UNCHANGED Locals

FE76 == /\ pc = "L76"
        /\ IF {"x_input", "ball_land_x", "y_input", "ball_land_y"} \subseteq Cols(D)
           THEN /\ Store(SetCol(D, "euclidean_dist_to_ball_land", [i \in Rows(D) |-> EuclideanDist(D[i])]))
                /\ pc' = "L82"
                /\ UNCHANGED <<err, same_sequence, cow>>
           ELSE KeyError
        /\ UNCHANGED Locals

FE82 == /\ pc = "L82"
        /\ IF {"x_input", "absolute_yardline_number"} \subseteq Cols(D)
           THEN /\ Store(SetCol(D, "dist_from_los", [i \in Rows(D) |-> DistFromLos(D[i])]))
                /\ pc' = "L89"
                /\ UNCHANGED <<err, same_sequence, cow>>
           ELSE KeyError
        /\ UNCHANGED Locals

FE89 == /\ pc = "L89"
        /\ IF {"x_input", "ball_land_x", "y_input", "ball_land_y"} \subseteq Cols(D)
           THEN /\ Store(SetCol(D, "bearing_to_ball_land", [i \in Rows(D) |-> BearingToBallLand(D[i])]))
                /\ pc' = "L94"
                /\ UNCHANGED <<err, same_sequence, cow>>
           ELSE KeyError
        /\ UNCHANGED Locals

FE94 == /\ pc = "L94"
        /\ IF "o" \in Cols(D)
           THEN /\ Store(SetCol(D, "bearing_diff", [i \in Rows(D) |-> BearingDiff(D[i])]))
                /\ pc' = "L99"
                /\ UNCHANGED <<err, same_sequence, cow>>
           ELSE KeyError
        /\ UNCHANGED Locals

FE99 == /\ pc = "L99"
        /\ IF "dir" \in Cols(D)
           THEN /\ Store(SetCol(D, "bearing_diff_dir", [i \in Rows(D) |-> BearingDiffDir(D[i])]))
                /\ pc' = "end"
                /\ UNCHANGED <<err, same_sequence, cow>>
           ELSE KeyError
        /\ UNCHANGED Locals

(* The function body ends after line 99 without a return statement: the call
   evaluates to None *)
FEReturn == /\ pc = "end"
            /\ ret' = "None"
            /\ pc' = "done"
            /\ UNCHANGED <<heap, df, df0, df_out, left_data, same_sequence, err,
                           missing, cow, calls, theta, normalized>>

----------------------------------------------------------------------------
(* Input datasets of engineer_features *)

Ids == Keys \X Frames

InputRow(id, m) ==
  [game_id |-> id[1][1], play_id |-> id[1][2], nfl_id |-> id[1][3],
   frame_id |-> id[2],
   a |-> m[1], o |-> m[2], s |-> m[3], dir |-> m[4],
   player_weight |-> 200, player_height |-> 72,
   play_direction |-> "right",
   x_input |-> 300, y_input |-> 300,
   ball_land_x |-> 500, ball_land_y |-> 100,
   absolute_yardline_number |-> 350,
   x_target |-> 400, y_target |-> 200]

Drop(d, col) ==
  IF col = "none" THEN d
  ELSE [i \in Rows(d) |-> [c \in DOMAIN d[i] \ {col} |-> d[i][c]]]

FEMissing == {"none", "a", "ball_land_x"}

Init ==
  /\ \E n \in 1..MaxRows :
       \E ids \in [1..n -> Ids] :
         /\ \A i, j \in 1..n : ids[i] = ids[j] => i = j
         /\ \E ms \in [1..n -> Measures] :
              \E col \in FEMissing :
                /\ missing = col
                /\ df0 = Drop([i \in 1..n |-> InputRow(ids[i], ms[i])], col)
  /\ heap = [caller |-> df0]
  /\ df = "caller"
  /\ df_out = "unbound"
  /\ left_data = <<>>
  /\ same_sequence = <<>>
  /\ pc = "L22"
  /\ ret = "unset"
  /\ err = "none"
  /\ cow = "unset"
  /\ calls = 0
  /\ theta = 0
  /\ normalized = 0

Next ==
  \/ FE22 \/ FE27 \/ FE35 \/ FE38 \/ FE43 \/ FE45 \/ FE51 \/ FE53 \/ FE58
  \/ FE60 \/ FE62 \/ FE67 \/ FE69 \/ FE76 \/ FE82 \/ FE89 \/ FE94 \/ FE99
  \/ FEReturn

Spec == Init /\ [][Next]_vars

----------------------------------------------------------------------------
(* invert_direction(df) *)

(* the assignment applied to every row, the mask ignored *)
LocReflectAll(d, mask, col, c) ==
  [i \in Rows(d) |-> [d[i] EXCEPT ![col] = c - @]]

(* df_out.loc[mask, col] = c - df_out.loc[mask, col] *)
LocReflect(d, mask, col, c) ==
  [i \in Rows(d) |-> IF mask[i] THEN [d[i] EXCEPT ![col] = c - @] ELSE d[i]]

(* df.copy(): the result is a reference to a new object, not to df's *)
CopyRef(ref, new) == new

StdLocals == <<df, df0, same_sequence, missing, cow, calls, theta, normalized>>

StdKeyError == /\ pc' = "raised"
               /\ err' = "KeyError"
               /\ UNCHANGED <<heap, df_out, left_data, ret>>

ID106 == /\ pc = "U106"
         /\ LET new == CopyRef(df, "copy" \o ToString(calls + 1))
            IN /\ heap' = (new :> heap[df]) @@ heap
               /\ df_out' = new
         /\ pc' = "U107"
         /\ UNCHANGED <<left_data, ret, err>>
         /\ UNCHANGED StdLocals

ID107 == /\ pc = "U107"
         /\ IF "play_direction" \in Cols(heap[df_out])
            THEN /\ left_data' = [i \in Rows(heap[df_out]) |->
                                    heap[df_out][i]["play_direction"] = "left"]
                 /\ pc' = "U109"
                 /\ UNCHANGED <<heap, df_out, ret, err>>
            ELSE StdKeyError /\ UNCHANGED left_data
         /\ UNCHANGED StdLocals

(* lines 109-121: one masked assignment per rewritten column *)
Reflect(l, nxt, col, c) ==
  /\ pc = l
  /\ IF col \in Cols(heap[df_out])
     THEN /\ heap' = [heap EXCEPT ![df_out] = LocReflect(@, left_data, col, c)]
          /\ pc' = nxt
          /\ UNCHANGED <<df_out, left_data, ret, err>>
     ELSE /\ pc' = "raised"
          /\ err' = "KeyError"
          /\ UNCHANGED <<heap, df_out, left_data, ret>>
  /\ UNCHANGED StdLocals

ID109 == Reflect("U109", "U111", "absolute_yardline_number", 1200)

ID111 == Reflect("U111", "U112", "x_input", 1200)

ID112 == Reflect("U112", "U114", "y_input", 533)

ID114 == Reflect("U114", "U115", "o", 360)

ID115 == Reflect("U115", "U117", "dir", 360)

ID117 == Reflect("U117", "U118", "ball_land_x", 1200)

ID118 == Reflect("U118", "U120", "ball_land_y", 533)

ID120 == Reflect("U120", "U121", "x_target", 1200)

ID121 == Reflect("U121", "U123", "y_target", 533)

ID123 == /\ pc = "U123"
         /\ ret' = df_out
         /\ calls' = calls + 1
         /\ pc' = "done"
         /\ UNCHANGED <<heap, df, df0, df_out, left_data, same_sequence, err,
                        missing, cow, theta, normalized>>

(* df_train = invert_direction(df_train): the caller passes the returned
   frame to the next application *)
Reapply == /\ pc = "done"
           /\ calls < MaxCalls
           /\ df' = ret
           /\ df0' = heap[ret]
           /\ df_out' = "unbound"
           /\ left_data' = <<>>
           /\ pc' = "U106"
           /\ UNCHANGED <<heap, ret, err, same_sequence, missing, cow, calls,
                          theta, normalized>>

StdDirs == {"left", "right"}

(* <<o, dir>> in degrees *)
StdAngles == {<<270, 180>>, <<270, 0>>, <<0, 180>>, <<90, 0>>}

StdRow(i, pd, ang) ==
  [game_id |-> 1, play_id |-> 1, nfl_id |-> 1, frame_id |-> i,
   a |-> 20, s |-> 20, o |-> ang[1], dir |-> ang[2],
   player_weight |-> 200, player_height |-> 72,
   play_direction |-> pd,
   x_input |-> 300, y_input |-> 300,
   ball_land_x |-> 500, ball_land_y |-> 100,
   absolute_yardline_number |-> 350,
   x_target |-> 400, y_target |-> 200]

StdMissing == {"none", "play_direction", "x_target"}

StdInit ==
  /\ \E n \in 1..MaxStdRows :
       \E pds \in [1..n -> StdDirs] :
         \E angs \in [1..n -> StdAngles] :
           \E col \in StdMissing :
             /\ missing = col
             /\ df0 = Drop([i \in 1..n |-> StdRow(i, pds[i], angs[i])], col)
  /\ heap = [caller |-> df0]
  /\ df = "caller"
  /\ df_out = "unbound"
  /\ left_data = <<>>
  /\ same_sequence = <<>>
  /\ pc = "U106"
  /\ ret = "unset"
  /\ err = "none"
  /\ cow = "unset"
  /\ calls = 0
  /\ theta = 0
  /\ normalized = 0

StdNext ==
  \/ ID106 \/ ID107 \/ ID109 \/ ID111 \/ ID112 \/ ID114 \/ ID115 \/ ID117
  \/ ID118 \/ ID120 \/ ID121 \/ ID123 \/ Reapply

SpecStd == StdInit /\ [][StdNext]_vars

----------------------------------------------------------------------------
(* normalize_deg on one cell: angle_diff_raw -> angle_diff (line 35), and
   likewise bearing_diff_raw (line 94) and bearing_diff_dir_raw (line 99) *)

Normalize == /\ pc = "N35"
             /\ normalized' = normalize_deg(theta)
             /\ pc' = "done"
             /\ UNCHANGED <<heap, df, df0, df_out, left_data, same_sequence,
                            ret, err, missing, cow, calls, theta>>

NormInit ==
  /\ theta \in (0 - MaxTheta)..MaxTheta
  /\ normalized = 0
  /\ pc = "N35"
  /\ df0 = <<>>
  /\ heap = [caller |-> df0]
  /\ df = "caller"
  /\ df_out = "unbound"
  /\ left_data = <<>>
  /\ same_sequence = <<>>
  /\ ret = "unset"
  /\ err = "none"
  /\ missing = "none"
  /\ cow = "unset"
  /\ calls = 0

NormNext == Normalize

SpecNorm == NormInit /\ [][NormNext]_vars

----------------------------------------------------------------------------
(* Vocabulary of the properties *)

Caller == heap["caller"]

Key(d, i) == <<d[i]["game_id"], d[i]["play_id"], d[i]["nfl_id"]>>

(* the rows of i's trajectory are adjacent in row order *)
ContiguousAt(d, i) ==
  \A j, k \in Rows(d) :
    (j < k /\ Key(d, j) = Key(d, i) /\ Key(d, k) = Key(d, i))
      => \A m \in j..k : Key(d, m) = Key(d, i)

(* ... and in increasing frame order *)
FrameOrderedAt(d, i) ==
  \A j, k \in Rows(d) :
    (j < k /\ Key(d, j) = Key(d, i) /\ Key(d, k) = Key(d, i))
      => d[j]["frame_id"] < d[k]["frame_id"]

Contiguous(d) == \A i \in Rows(d) : ContiguousAt(d, i)

Sorted(d) == \A i \in Rows(d) : ContiguousAt(d, i) /\ FrameOrderedAt(d, i)

(* i is the first row of its trajectory in row order, and i + 1 the second *)
StartsPair(d, i) ==
  /\ i + 1 \in Rows(d)
  /\ Key(d, i + 1) = Key(d, i)
  /\ \A j \in Rows(d) : j < i => Key(d, j) # Key(d, i)

(* rows of i's trajectory with a lower frame_id *)
Earlier(d, i) ==
  {j \in Rows(d) : Key(d, j) = Key(d, i) /\ d[j]["frame_id"] < d[i]["frame_id"]}

(* the row of i's trajectory with the next-lower frame_id *)
Pred(d, i) ==
  CHOOSE j \in Earlier(d, i) :
    \A k \in Earlier(d, i) : d[k]["frame_id"] <= d[j]["frame_id"]

Engineered == {"player_bmi", "x_velocity", "y_velocity", "angle_diff",
               "player_momentum", "jerk", "angular_velocity", "path_curvature",
               "euclidean_dist_to_ball_land", "dist_from_los",
               "bearing_to_ball_land", "bearing_diff", "bearing_diff_dir"}

Reflected == {"x_input", "y_input", "o", "dir", "ball_land_x", "ball_land_y",
              "x_target", "y_target", "absolute_yardline_number"}

----------------------------------------------------------------------------
(* C1: on a dataset whose trajectories are contiguous in row order, the jerk
   and the angular_velocity of every row are derived only from rows with the
   same (game_id, play_id, nfl_id) as that row. *)
C1_WithinTrajectory ==
  (pc = "done" /\ Contiguous(Caller))
    => \A i \in Rows(Caller) :
         \A j \in Caller[i]["jerk"].from \cup Caller[i]["angular_velocity"].from :
           Key(Caller, j) = Key(Caller, i)

(* C2: for a contiguous, frame-ordered trajectory of at least two rows, the
   jerk of its first row equals the jerk of its second row, which is
   (a[second] - a[first]) / 0.1. *)
C2_FirstJerkIsSecond ==
  pc = "done"
    => \A i \in Rows(Caller) :
         (StartsPair(Caller, i) /\ ContiguousAt(Caller, i) /\ FrameOrderedAt(Caller, i))
           => /\ ~Caller[i]["jerk"].na
              /\ ~Caller[i + 1]["jerk"].na
              /\ Caller[i]["jerk"].v = Caller[i + 1]["jerk"].v
              /\ Caller[i + 1]["jerk"].v = (Caller[i + 1]["a"] - Caller[i]["a"]) * 10

(* a = 2.0 then 2.5 on the second trajectory of the dataset: jerk 5.0 on both *)
C2_Witness ==
  /\ pc = "done"
  /\ \E i \in Rows(Caller) :
       /\ i > 1
       /\ StartsPair(Caller, i) /\ ContiguousAt(Caller, i) /\ FrameOrderedAt(Caller, i)
       /\ Caller[i]["a"] = 20 /\ Caller[i + 1]["a"] = 25
       /\ Caller[i]["jerk"].v = 50

(* C3 as stated: normalize_deg(theta) lies in (-180, 180]. *)
C3_HalfOpenAbove ==
  pc = "done" => (normalized > 0 - 180 /\ normalized <= 180)

(* C3 amended: on exact values normalize_deg(theta) lies in [-180, 180) and
   differs from theta by a whole number of turns; it is -180 at theta = 180. *)
C3_HalfOpenBelow ==
  pc = "done"
    => /\ normalized >= 0 - 180
       /\ normalized < 180
       /\ (normalized - theta) % 360 = 0
       /\ (theta = 180 => normalized = 0 - 180)

C3_Witness == pc = "done" /\ theta = 180 /\ normalized = 0 - 180

(* C4: two applications of invert_direction return every left row to its
   original values in the nine rewritten columns, and one application maps a
   left row to 120 - x, 53.3 - y, 360 - o, 360 - dir, which for x = 30,
   y = 30, o = 270, dir = 180 is x = 90, y = 23.3, o = 90, dir = 0. *)
C4_ReflectionExample ==
  (pc = "done" /\ err = "none")
    => \A i \in Rows(Caller) :
         Caller[i]["play_direction"] = "left"
           => /\ calls = 2 => \A c \in Reflected : heap[ret][i][c] = Caller[i][c]
              /\ calls = 1 =>
                   /\ heap[ret][i]["x_input"] = 1200 - Caller[i]["x_input"]
                   /\ heap[ret][i]["y_input"] = 533 - Caller[i]["y_input"]
                   /\ heap[ret][i]["o"] = 360 - Caller[i]["o"]
                   /\ heap[ret][i]["dir"] = 360 - Caller[i]["dir"]
                   /\ (/\ Caller[i]["x_input"] = 300 /\ Caller[i]["y_input"] = 300
                       /\ Caller[i]["o"] = 270 /\ Caller[i]["dir"] = 180)
                        => /\ heap[ret][i]["x_input"] = 900
                           /\ heap[ret][i]["y_input"] = 233
                           /\ heap[ret][i]["o"] = 90
                           /\ heap[ret][i]["dir"] = 0

(* C5: invert_direction never modifies the frame it was passed; its result is
   another object with the same rows in the same order, the same key columns
   and play_direction, and every right row equal to the input row. *)
C5_Frame ==
  /\ heap[df] = df0
  /\ (pc = "done" /\ err = "none")
       => /\ ret # df
          /\ Len(heap[ret]) = Len(df0)
          /\ \A i \in Rows(df0) :
               /\ Cols(heap[ret]) = Cols(df0)
               /\ \A c \in {"game_id", "play_id", "nfl_id", "frame_id", "play_direction"} :
                    heap[ret][i][c] = df0[i][c]
               /\ df0[i]["play_direction"] = "right" => heap[ret][i] = df0[i]

(* a left row was rewritten next to a right row *)
C5_Witness ==
  /\ pc = "done" /\ err = "none" /\ calls = 1
  /\ \E i, j \in Rows(df0) :
       /\ df0[i]["play_direction"] = "left"
       /\ df0[j]["play_direction"] = "right"
       /\ heap[ret][i]["x_input"] = 900
       /\ heap[df][i]["x_input"] = 300

(* C6: engineer_features returns the dataset with the thirteen engineered
   columns added, the same rows in the same order and every input column
   preserved. *)
C6_ReturnsAugmented ==
  pc = "done"
    => /\ ret = df
       /\ Len(heap[df]) = Len(df0)
       /\ Cols(heap[df]) = Cols(df0) \cup Engineered
       /\ \A i \in Rows(df0) : \A c \in Cols(df0) : heap[df][i][c] = df0[i][c]

(* C7: a call aborted by a missing column has added or changed no column of
   the dataset the caller passed in. *)
C7_NoPartialOutput ==
  err = "KeyError" => Caller = df0

(* C8: a row with s = 0 has path_curvature exactly 0, whatever its
   angular_velocity; a row with s # 0 and a defined angular_velocity has
   (angular_velocity * pi / 180) / s. *)
C8_Curvature ==
  pc = "done"
    => \A i \in Rows(Caller) :
         LET r == Caller[i]
             k == r["path_curvature"]
         IN /\ ~k.na
            /\ r["s"] = 0 => k.num = 0
            /\ (r["s"] # 0 /\ ~r["angular_velocity"].na)
                 => k.num * 180 * r["s"] = r["angular_velocity"].v * 10 * k.den

(* a stationary row that is turning, after a moving row that is turning *)
C8_Witness ==
  /\ pc = "done"
  /\ \E i, j \in Rows(Caller) :
       /\ Caller[i]["s"] = 0
       /\ ~Caller[i]["angular_velocity"].na
       /\ Caller[i]["angular_velocity"].v < 0
       /\ Caller[j]["s"] # 0
       /\ ~Caller[j]["angular_velocity"].na
       /\ Caller[j]["path_curvature"].num > 0

(* C9 as stated: for any row order, the jerk and angular_velocity of every
   non-first frame of a trajectory are the difference to the frame with the
   next-lower frame_id of the same trajectory, divided by 0.1. *)
C9_AsIfSorted ==
  pc = "done"
    => \A i \in Rows(Caller) :
         Earlier(Caller, i) # {}
           => /\ ~Caller[i]["jerk"].na
              /\ Caller[i]["jerk"].v = (Caller[i]["a"] - Caller[Pred(Caller, i)]["a"]) * 10
              /\ ~Caller[i]["angular_velocity"].na
              /\ Caller[i]["angular_velocity"].v
                   = (Caller[i]["o"] - Caller[Pred(Caller, i)]["o"]) * 10

(* C9 amended: the rows are taken in the order given.  A row whose preceding
   row belongs to the same trajectory gets the difference to that preceding
   row divided by 0.1; on a dataset sorted by (game_id, play_id, nfl_id,
   frame_id) that row is the frame with the next-lower frame_id. *)
C9_RowOrder ==
  pc = "done"
    => \A i \in Rows(Caller) :
         (i > 1 /\ Key(Caller, i) = Key(Caller, i - 1))
           => /\ ~Caller[i]["jerk"].na
              /\ Caller[i]["jerk"].v = (Caller[i]["a"] - Caller[i - 1]["a"]) * 10
              /\ ~Caller[i]["angular_velocity"].na
              /\ Caller[i]["angular_velocity"].v
                   = (Caller[i]["o"] - Caller[i - 1]["o"]) * 10
              /\ (Sorted(Caller) /\ Earlier(Caller, i) # {}) => Pred(Caller, i) = i - 1

(* frame 2 precedes frame 1 of the same trajectory: the jerk on the frame-1
   row is a[frame 1] - a[frame 2] over 0.1 *)
C9_Witness ==
  /\ pc = "done"
  /\ \E i \in Rows(Caller) :
       /\ i > 1
       /\ Key(Caller, i) = Key(Caller, i - 1)
       /\ Caller[i]["frame_id"] < Caller[i - 1]["frame_id"]
       /\ Caller[i]["jerk"].v = 50
       /\ Caller[i]["angular_velocity"].v = 0 - 50

(* C10: the naive o-difference of every trajectory-boundary row is discarded
   in the angular_velocity column before the backward fill, so that the first
   row of a contiguous trajectory of at least two rows ends with the second
   row's angular_velocity. *)
C10_BoundaryDiscarded ==
  /\ pc = "L62"
       => \A i \in Rows(Caller) :
            ~same_sequence[i] => Caller[i]["angular_velocity"].na
  /\ pc = "done"
       => \A i \in Rows(Caller) :
            (StartsPair(Caller, i) /\ ContiguousAt(Caller, i))
              => Caller[i]["angular_velocity"] = Caller[i + 1]["angular_velocity"]

====
